---- MODULE Spec2Model ----
(***************************************************************************)
(* archinstall: NetworkConfiguration.parse_arguments / json / get          *)
(* (lib/models/network_configuration.py) and the subvolume list editor     *)
(* SubvolumeList.exec_action / SubvolumeMenu (lib/user_interaction/        *)
(* subvolume_config.py).                                                   *)
(*                                                                         *)
(* A Python value is a record [t, s, b, q, d]: its type tag and, by type,   *)
(* its string, boolean, list or dict content; '', None, False and [] stay  *)
(* distinct values that share their falsiness.                             *)
(***************************************************************************)
EXTENDS Integers, Sequences, FiniteSets, TLC

VARIABLES config, phase, result, orig, via, rounds,
          data, pc, action, target, ds, cancelSel, before, err, last, sessions

netVars == <<config, phase, result, orig, via, rounds>>
subVars == <<data, pc, action, target, ds, cancelSel, before, err, last, sessions>>
vars == <<config, phase, result, orig, via, rounds,
          data, pc, action, target, ds, cancelSel, before, err, last, sessions>>

(***************************************************************************)
(* Bounds                                                                  *)
(***************************************************************************)
\* longest dns list drawn as an input
MaxDns == 2
\* how many times a returned record is fed back (serialised or passed as is)
MaxRounds == 1
\* exec_action calls in one run of the list editor
MaxSessions == 3

(***************************************************************************)
(* Python values                                                           *)
(***************************************************************************)
None == [t |-> "none", s |-> "", b |-> FALSE, q |-> <<>>, d |-> <<>>]
\* a key the mapping does not have
Absent == [None EXCEPT !.t = "absent"]
Str(x) == [None EXCEPT !.t = "str", !.s = x]
Bool(x) == [None EXCEPT !.t = "bool", !.b = x]
List(x) == [None EXCEPT !.t = "list", !.q = x]
\* a member of NicType; its value is the string
Enum(x) == [None EXCEPT !.t = "enum", !.s = x]
Dict(x) == [None EXCEPT !.t = "dict", !.d = x]

\* bool(x)
Truthy(x) ==
  CASE x.t = "none" -> FALSE
    [] x.t = "str" -> x.s # ""
    [] x.t = "bool" -> x.b
    [] x.t = "list" -> Len(x.q) > 0
    [] x.t = "enum" -> x.s # ""
    [] x.t = "dict" -> DOMAIN x.d # {}
    [] OTHER -> FALSE

NicTypeValues == {"iso", "nm", "manual"}
ISO == Enum("iso")
NM == Enum("nm")
MANUAL == Enum("manual")

\* NetworkConfiguration(type, iface=None, ip=None, dhcp=True, gateway=None, dns=None)
NetworkConfiguration(type, iface, ip, dhcp, gateway, dns) ==
  [type |-> type, iface |-> iface, ip |-> ip, dhcp |-> dhcp,
   gateway |-> gateway, dns |-> dns]

\* NetworkConfiguration(type): every other field keeps its dataclass default
Bare(type) == NetworkConfiguration(type, None, None, Bool(TRUE), None, None)

(***************************************************************************)
(* Inputs of parse_arguments: a bare string, a mapping, or a record         *)
(***************************************************************************)
NoRecord == [type |-> None, iface |-> None, ip |-> None, dhcp |-> None,
             gateway |-> None, dns |-> None]
StrInput(x) == [kind |-> "str", s |-> x, d |-> <<>>, r |-> NoRecord]
DictInput(x) == [kind |-> "dict", s |-> "", d |-> x, r |-> NoRecord]
RecInput(x) == [kind |-> "rec", s |-> "", d |-> <<>>, r |-> x]

\* outcomes of one call
Returned(r) == [out |-> "record", rec |-> r, msg |-> ""]
ReturnedNone == [out |-> "none", rec |-> NoRecord, msg |-> ""]
\* log(...) then exit(1)
Exit(msg) == [out |-> "exit", rec |-> NoRecord, msg |-> msg]
\* an exception that leaves the call
Raise(exc) == [out |-> "raise", rec |-> NoRecord, msg |-> exc]
Pending == [out |-> "pending", rec |-> NoRecord, msg |-> ""]

\* NetworkConfiguration.__getitem__: the keys it answers
RecordKeys == {"type", "iface", "gateway", "dns", "dhcp"}

\* config.get(key, default) does not raise
CanGet(cfg, key) ==
  CASE cfg.kind = "dict" -> TRUE
    [] cfg.kind = "rec" -> key \in RecordKeys
    [] OTHER -> FALSE

\* config.get(key, default), where it does not raise
Get(cfg, key, default) ==
  IF cfg.kind = "dict"
  THEN IF key \in DOMAIN cfg.d THEN cfg.d[key] ELSE default
  ELSE IF cfg.r[key] = None THEN default ELSE cfg.r[key]

\* key in config, for a mapping
HasKey(cfg, key) == key \in DOMAIN cfg.d

\* json(): self.__dict__
json(r) ==
  [k \in {"type", "iface", "ip", "dhcp", "gateway", "dns"} |-> r[k]]

\* NicType(nic_type) succeeds: the value is a member or equals a member's value
ValidNicTypeNoCase(x) ==
  /\ x.t \in {"str", "enum"}
  /\ x.s \in NicTypeValues \cup {"ISO", "NM", "MANUAL"}

ValidNicType(x) == x.t \in {"str", "enum"} /\ x.s \in NicTypeValues

\* the member NicType(nic_type) returns
NicType(x) == Enum(x.s)

\* line 46: not nic_type
IsOldStyle(nic_type) == ~Truthy(nic_type)

\* lines 48-68 with 'nic' looked at before 'ip'
OldStyleNicFirst(cfg) ==
  IF cfg.kind = "str" THEN Returned(Bare(ISO))
  ELSE IF ~CanGet(cfg, "NetworkManager") THEN Raise("KeyError")
  ELSE IF Truthy(Get(cfg, "NetworkManager", None)) THEN Returned(Bare(NM))
  ELSE IF HasKey(cfg, "nic")
       THEN Returned(NetworkConfiguration(MANUAL, Get(cfg, "nic", Str("")),
                                          None, Bool(TRUE), None, None))
  ELSE IF HasKey(cfg, "ip")
       THEN Returned(NetworkConfiguration(MANUAL, Get(cfg, "nic", Str("")),
                                          Get(cfg, "ip", None), Bool(FALSE),
                                          Get(cfg, "gateway", Str("")),
                                          Get(cfg, "dns", List(<<>>))))
  ELSE ReturnedNone

\* lines 48-68: old style definitions
OldStyle(cfg) ==
  IF cfg.kind = "str" THEN Returned(Bare(ISO))
  ELSE IF ~CanGet(cfg, "NetworkManager") THEN Raise("KeyError")
  ELSE IF Truthy(Get(cfg, "NetworkManager", None)) THEN Returned(Bare(NM))
  ELSE IF HasKey(cfg, "ip")
       THEN Returned(NetworkConfiguration(MANUAL, Get(cfg, "nic", Str("")),
                                          Get(cfg, "ip", None), Bool(FALSE),
                                          Get(cfg, "gateway", Str("")),
                                          Get(cfg, "dns", List(<<>>))))
  ELSE IF HasKey(cfg, "nic")
       THEN Returned(NetworkConfiguration(MANUAL, Get(cfg, "nic", Str("")),
                                          None, Bool(TRUE), None, None))
  ELSE ReturnedNone

\* line 78 looking at 'ip' alone
AutoDhcpIpOnly(cfg) ==
  \/ Truthy(Get(cfg, "dhcp", Bool(FALSE)))
  \/ ~Truthy(Get(cfg, "ip", None))

\* line 78, once its get calls are known not to raise
AutoDhcp(cfg) ==
  \/ Truthy(Get(cfg, "dhcp", Bool(FALSE)))
  \/ ~(\E k \in {"ip", "gateway", "dns"} : Truthy(Get(cfg, k, None)))

\* lines 81-93 reading the interface from the old 'nic' key
StaticNic(cfg, type) ==
  LET ip == Get(cfg, "ip", Str("")) IN
  IF ~Truthy(ip) THEN Exit("MissingRequiredAddress")
  ELSE Returned(NetworkConfiguration(type, Get(cfg, "nic", Str("")), ip,
                                     Bool(FALSE), Get(cfg, "gateway", Str("")),
                                     Get(cfg, "dns", List(<<>>))))

\* lines 81-93: the static branch of a manual configuration
Static(cfg, type) ==
  LET ip == Get(cfg, "ip", Str("")) IN
  IF ~Truthy(ip) THEN Exit("MissingRequiredAddress")
  ELSE Returned(NetworkConfiguration(type, Get(cfg, "iface", Str("")), ip,
                                     Bool(FALSE), Get(cfg, "gateway", Str("")),
                                     Get(cfg, "dns", List(<<>>))))

\* lines 77-95. The list of line 78 is built only when dhcp is falsy ('or'
\* short-circuits), and building it calls get('ip') first.
Typed(cfg, type) ==
  IF type # MANUAL THEN Returned(Bare(type))
  ELSE IF Truthy(Get(cfg, "dhcp", Bool(FALSE)))
       THEN Returned(NetworkConfiguration(type, Get(cfg, "iface", Str("")),
                                          None, Bool(TRUE), None, None))
  ELSE IF ~CanGet(cfg, "ip") THEN Raise("KeyError")
  ELSE IF AutoDhcp(cfg)
       THEN Returned(NetworkConfiguration(type, Get(cfg, "iface", Str("")),
                                          None, Bool(TRUE), None, None))
  ELSE Static(cfg, type)

\* NetworkConfiguration.parse_arguments
parse_arguments(cfg) ==
  IF ~CanGet(cfg, "type") THEN Raise("AttributeError")
  ELSE LET nic_type == Get(cfg, "type", None) IN
    IF IsOldStyle(nic_type) THEN OldStyle(cfg)
    ELSE IF ~ValidNicType(nic_type) THEN Exit("UnknownType")
    ELSE Typed(cfg, NicType(nic_type))

(***************************************************************************)
(* Inputs drawn for parse_arguments                                        *)
(***************************************************************************)
Addr == "10.0.0.2/24"
Gw == "10.0.0.1"
DnsPool == {"1.1.1.1", "9.9.9.9"}
DnsLists == UNION {[1..n -> DnsPool] : n \in 0..MaxDns}

TypeInputs == {Absent, None, Str(""), Str("iso"), Str("nm"), Str("manual"),
               Str("ISO"), Str("wifi"), Bool(TRUE)}
NetworkManagerInputs == {Absent, Bool(TRUE), Bool(FALSE)}
IpInputs == {Absent, Str(""), Str(Addr)}
NicInputs == {Absent, Str("eth0")}
IfaceInputs == {Absent, Str("eth0")}
DhcpInputs == {Absent, Bool(TRUE), Bool(FALSE)}
GatewayInputs == {Absent, Str(""), Str(Gw)}
DnsInputs == {Absent} \cup {List(q) : q \in DnsLists}

\* a mapping keeps the keys that were given a value
Mapping(f) == [k \in {k \in DOMAIN f : f[k] # Absent} |-> f[k]]

DictInputs ==
  {DictInput(Mapping(f)) :
     f \in [type : TypeInputs, NetworkManager : NetworkManagerInputs,
            ip : IpInputs, nic : NicInputs, iface : IfaceInputs,
            dhcp : DhcpInputs, gateway : GatewayInputs, dns : DnsInputs]}

StrInputs == {StrInput(s) : s \in {"", "iso", "Copy ISO network configuration to installation"}}

\* records as the dataclass constructor builds them
Records ==
  [type : {ISO, NM, MANUAL}, iface : {None, Str(""), Str("eth0")},
   ip : {None, Str(""), Str(Addr)}, dhcp : {Bool(TRUE), Bool(FALSE)},
   gateway : {None, Str(""), Str(Gw)},
   dns : {None} \cup {List(q) : q \in DnsLists}]

RecInputs == {RecInput(r) : r \in Records}

(***************************************************************************)
(* The editor's state is idle while the parser is exercised                *)
(***************************************************************************)
NoTarget == [kind |-> "none", val |-> <<>>]
NoDs == [name |-> None, mountpoint |-> None, options |-> None]
EmptyDict == [k \in {} |-> None]
NoSession == [how |-> "none", key |-> ""]

SubIdle ==
  /\ data = EmptyDict
  /\ pc = "idle"
  /\ action = "none"
  /\ target = NoTarget
  /\ ds = NoDs
  /\ cancelSel = FALSE
  /\ before = EmptyDict
  /\ err = "none"
  /\ last = NoSession
  /\ sessions = 0

(***************************************************************************)
(* The parser as a state machine: an input is parsed; a returned record   *)
(* is serialised with json() or handed back as it is, and parsed again.   *)
(***************************************************************************)
NetInit ==
  /\ config \in StrInputs \cup DictInputs \cup RecInputs
  /\ phase = "input"
  /\ result = Pending
  /\ orig = NoRecord
  /\ via = "direct"
  /\ rounds = 0
  /\ SubIdle

\* cls.parse_arguments(config)
ParseArguments ==
  /\ phase = "input"
  /\ result' = parse_arguments(config)
  /\ phase' = "parsed"
  /\ UNCHANGED <<config, orig, via, rounds>>
  /\ UNCHANGED subVars

\* record.json() of a record built by the caller: the mapping is the next input
JsonOfRecord ==
  /\ phase = "input"
  /\ config.kind = "rec"
  /\ via = "direct"
  /\ config' = DictInput(json(config.r))
  /\ orig' = config.r
  /\ via' = "json"
  /\ UNCHANGED <<phase, result, rounds>>
  /\ UNCHANGED subVars

\* result.json() of a returned record: the mapping is the next input
JsonOfResult ==
  /\ phase = "parsed"
  /\ result.out = "record"
  /\ rounds < MaxRounds
  /\ config' = DictInput(json(result.rec))
  /\ orig' = result.rec
  /\ via' = "json"
  /\ phase' = "input"
  /\ result' = Pending
  /\ rounds' = rounds + 1
  /\ UNCHANGED subVars

\* a returned record is itself the next input
PassRecord ==
  /\ phase = "parsed"
  /\ result.out = "record"
  /\ rounds < MaxRounds
  /\ config' = RecInput(result.rec)
  /\ orig' = result.rec
  /\ via' = "record"
  /\ phase' = "input"
  /\ result' = Pending
  /\ rounds' = rounds + 1
  /\ UNCHANGED subVars

NetNext == ParseArguments \/ JsonOfRecord \/ JsonOfResult \/ PassRecord

NetSpec == NetInit /\ [][NetNext]_vars

(***************************************************************************)
(* The subvolume collection: name -> value, a value being a mountpoint     *)
(* string or a dict with optional 'mountpoint' and 'options'.              *)
(***************************************************************************)
Names == {"root", "home"}
NameInputs == {Str(""), Str("root"), Str("home")}
MountpointInputs == {Str(""), Str("/"), Str("/mnt/root")}
\* Menu(..., ['nodatacow','compress'], skip=True, multi=True).run()
OptionsInputs == {None, List(<<>>), List(<<"compress">>),
                  List(<<"nodatacow", "compress">>)}

Entry(k, val) == [x \in {k} |-> val]

InitialCollections ==
  { EmptyDict,
    Entry("root", Str("/")),
    [k \in {"root", "home"} |->
       IF k = "root" THEN Dict(Entry("mountpoint", Str("/")))
       ELSE Dict(Entry("options", List(<<"compress">>)))] }

TargetOf(d) == [kind |-> "dict", val |-> d]

\* if self.target:
HasTarget(tgt) == tgt.kind = "dict" /\ DOMAIN tgt.val # {}

\* origkey of lines 35-38; "" stands for None
OrigKey(tgt) == IF HasTarget(tgt) THEN CHOOSE k \in DOMAIN tgt.val : TRUE ELSE ""

\* d.update(other)
Update(d, other) ==
  [k \in DOMAIN d \cup DOMAIN other |-> IF k \in DOMAIN other THEN other[k] ELSE d[k]]

\* del d[key], where the key is there
Del(d, key) == [k \in DOMAIN d \ {key} |-> d[k]]

\* value.get(field)
ValueGet(val, field) == IF field \in DOMAIN val.d THEN val.d[field] ELSE None

\* SubvolumeMenu.__init__: the scratch record self.ds
MenuInit(tgt) ==
  IF ~HasTarget(tgt) THEN NoDs
  ELSE LET origkey == OrigKey(tgt)
           origval == tgt.val[origkey]
       IN IF origval.t = "str"
          THEN [name |-> Str(origkey), mountpoint |-> origval, options |-> None]
          ELSE [name |-> Str(origkey),
                mountpoint |-> ValueGet(origval, "mountpoint"),
                options |-> ValueGet(origval, "options")]

\* line 78 with the name prompt left on in every mode
NameEnabledAlways(act) == TRUE

\* line 78: the name prompt has a function in Add and Copy only
NameEnabled(act) == act \in {"none", "Add", "Copy"}

\* lines 82, 85: mountpoint and options have one in Add and Edit only
ValueEnabled(act) == act \in {"none", "Add", "Edit"}

Enabled(field, act) ==
  IF field = "name" THEN NameEnabled(act) ELSE ValueEnabled(act)

\* exit_callback that never looks at the cancel selection
exit_callback_no_cancel(cancelled, scratch, menuData) ==
  IF ~Truthy(scratch.name) THEN menuData
  ELSE Update(menuData,
         Entry(scratch.name.s,
               Dict([k \in {k \in {"mountpoint", "options"} : Truthy(scratch[k])}
                       |-> scratch[k]])))

\* SubvolumeMenu.exit_callback: what self.data (the target dict) is afterwards
exit_callback(cancelled, scratch, menuData) ==
  IF cancelled THEN menuData
  ELSE IF ~Truthy(scratch.name) THEN menuData
  ELSE Update(menuData,
         Entry(scratch.name.s,
               Dict([k \in {k \in {"mountpoint", "options"} : Truthy(scratch[k])}
                       |-> scratch[k]])))

\* self.option('cancel').get_selection() once the menu was left by `choice`
CancelSelection(choice) == choice = "cancel"

\* what the list hands exec_action for a Delete: nothing, an entry of the
\* collection, or a name that is not in it
DeleteTargets(d) ==
  {NoTarget} \cup {TargetOf(Entry(k, d[k])) : k \in DOMAIN d}
             \cup {TargetOf(Entry(k, Dict(EmptyDict))) : k \in Names \ DOMAIN d}

NetIdle ==
  /\ config = StrInput("")
  /\ phase = "idle"
  /\ result = Pending
  /\ orig = NoRecord
  /\ via = "direct"
  /\ rounds = 0

SubInit ==
  /\ data \in InitialCollections
  /\ pc = "idle"
  /\ action = "none"
  /\ target = NoTarget
  /\ ds = NoDs
  /\ cancelSel = FALSE
  /\ before = data
  /\ err = "none"
  /\ last = NoSession
  /\ sessions = 0
  /\ NetIdle

\* exec_action with action Delete (lines 35-42)
Delete ==
  /\ pc = "idle"
  /\ sessions < MaxSessions
  /\ \E tgt \in DeleteTargets(data) :
       /\ target' = tgt
       /\ IF OrigKey(tgt) \in DOMAIN data
          THEN /\ data' = Del(data, OrigKey(tgt))
               /\ pc' = "idle"
               /\ err' = err
               /\ last' = [how |-> "deleted", key |-> OrigKey(tgt)]
          ELSE /\ data' = data
               /\ pc' = "raised"
               /\ err' = "KeyError"
               /\ last' = [how |-> "raised", key |-> OrigKey(tgt)]
  /\ action' = "Delete"
  /\ before' = data
  /\ sessions' = sessions + 1
  /\ UNCHANGED <<ds, cancelSel>>
  /\ UNCHANGED netVars

\* exec_action with action Add, up to the first prompt (lines 44-47)
BeginAdd ==
  /\ pc = "idle"
  /\ sessions < MaxSessions
  /\ action' = "Add"
  /\ target' = TargetOf(EmptyDict)
  /\ ds' = MenuInit(TargetOf(EmptyDict))
  /\ cancelSel' = FALSE
  /\ before' = data
  /\ pc' = "add_name"
  /\ last' = [how |-> "open", key |-> ""]
  /\ sessions' = sessions + 1
  /\ UNCHANGED <<data, err>>
  /\ UNCHANGED netVars

\* add_menu.exec_option('name')
PromptName ==
  /\ pc = "add_name"
  /\ \E val \in NameInputs :
       ds' = IF Enabled("name", action) THEN [ds EXCEPT !.name = val] ELSE ds
  /\ pc' = "add_mountpoint"
  /\ UNCHANGED <<data, action, target, cancelSel, before, err, last, sessions>>
  /\ UNCHANGED netVars

\* add_menu.exec_option('mountpoint')
PromptMountpoint ==
  /\ pc = "add_mountpoint"
  /\ \E val \in MountpointInputs :
       ds' = IF Enabled("mountpoint", action)
             THEN [ds EXCEPT !.mountpoint = val] ELSE ds
  /\ pc' = "add_options"
  /\ UNCHANGED <<data, action, target, cancelSel, before, err, last, sessions>>
  /\ UNCHANGED netVars

\* add_menu.exec_option('options'), the end of the with block (exit_callback)
\* and self.data.update(self.target) (lines 48-54)
PromptOptions ==
  /\ pc = "add_options"
  /\ \E val \in OptionsInputs :
       LET scratch == IF Enabled("options", action)
                      THEN [ds EXCEPT !.options = val] ELSE ds
           tgt == exit_callback(cancelSel, scratch, target.val)
       IN /\ ds' = scratch
          /\ target' = TargetOf(tgt)
          /\ data' = Update(data, tgt)
  /\ pc' = "idle"
  /\ last' = [how |-> "added", key |-> ""]
  /\ UNCHANGED <<action, cancelSel, before, err, sessions>>
  /\ UNCHANGED netVars

\* exec_action with action Edit or Copy on an entry of the collection, up to
\* the menu being shown (lines 35-36, 51, 57-73)
BeginMenu ==
  /\ pc = "idle"
  /\ sessions < MaxSessions
  /\ \E act \in {"Edit", "Copy"}, k \in DOMAIN data :
       /\ action' = act
       /\ target' = TargetOf(Entry(k, data[k]))
       /\ ds' = MenuInit(TargetOf(Entry(k, data[k])))
       /\ last' = [how |-> "open", key |-> k]
  /\ cancelSel' = FALSE
  /\ before' = data
  /\ pc' = "menu"
  /\ sessions' = sessions + 1
  /\ UNCHANGED <<data, err>>
  /\ UNCHANGED netVars

\* one field of the menu is chosen and its prompt answered
SelectField ==
  /\ pc = "menu"
  /\ \/ \E val \in NameInputs :
          Enabled("name", action) /\ ds' = [ds EXCEPT !.name = val]
     \/ \E val \in MountpointInputs :
          Enabled("mountpoint", action) /\ ds' = [ds EXCEPT !.mountpoint = val]
     \/ \E val \in OptionsInputs :
          Enabled("options", action) /\ ds' = [ds EXCEPT !.options = val]
  /\ UNCHANGED <<data, pc, action, target, cancelSel, before, err, last, sessions>>
  /\ UNCHANGED netVars

\* Save is chosen: run() ends, exit_callback commits the scratch record into
\* the target, and exec_action updates the collection (lines 51-54, 105-118)
Save ==
  /\ pc = "menu"
  /\ cancelSel' = CancelSelection("save")
  /\ LET tgt == exit_callback(cancelSel', ds, target.val)
     IN /\ target' = TargetOf(tgt)
        /\ data' = Update(data, tgt)
  /\ pc' = "idle"
  /\ last' = [last EXCEPT !.how = "saved"]
  /\ UNCHANGED <<action, ds, before, err, sessions>>
  /\ UNCHANGED netVars

\* Cancel is chosen: its selection is set, run() ends, exit_callback returns at
\* line 108, and exec_action still runs self.data.update(self.target)
Cancel ==
  /\ pc = "menu"
  /\ cancelSel' = CancelSelection("cancel")
  /\ LET tgt == exit_callback(cancelSel', ds, target.val)
     IN /\ target' = TargetOf(tgt)
        /\ data' = Update(data, tgt)
  /\ pc' = "idle"
  /\ last' = [last EXCEPT !.how = "cancelled"]
  /\ UNCHANGED <<action, ds, before, err, sessions>>
  /\ UNCHANGED netVars

SubNext ==
  \/ Delete
  \/ BeginAdd
  \/ PromptName
  \/ PromptMountpoint
  \/ PromptOptions
  \/ BeginMenu
  \/ SelectField
  \/ Save
  \/ Cancel

SubSpec == SubInit /\ [][SubNext]_vars

(***************************************************************************)
(* Claims about parse_arguments (checked under NetSpec)                    *)
(***************************************************************************)
Parsed == phase = "parsed"
ParsedMapping == phase = "parsed" /\ config.kind = "dict"

\* the value is one of the strings "iso", "nm", "manual"
NamesAMember(x) == \E s \in {"iso", "nm", "manual"} : x = Str(s) \/ x = Enum(s)

\* dhcp is absent from the mapping or falsy
DhcpOff(d) == "dhcp" \notin DOMAIN d \/ ~Truthy(d["dhcp"])

\* C1 as stated: a mapping with a `type` key whose value is not one of "iso",
\* "nm", "manual" always ends in the fatal UnknownType outcome.
C1_AnyOtherTypeIsUnknown ==
  (ParsedMapping /\ "type" \in DOMAIN config.d /\ ~NamesAMember(config.d["type"]))
    => result = Exit("UnknownType")

\* C1 amended: a mapping with a `type` key whose value is truthy (non-empty,
\* not null) and not one of "iso", "nm", "manual" ends in the fatal
\* UnknownType outcome, whatever legacy keys it carries.
C1_TruthyOtherTypeIsUnknown ==
  (ParsedMapping /\ "type" \in DOMAIN config.d
     /\ Truthy(config.d["type"]) /\ ~NamesAMember(config.d["type"]))
    => result = Exit("UnknownType")

C1_Witness ==
  /\ ParsedMapping
  /\ "type" \in DOMAIN config.d /\ config.d["type"] = Str("ISO")
  /\ "ip" \in DOMAIN config.d /\ "NetworkManager" \in DOMAIN config.d
  /\ result = Exit("UnknownType")

\* C2 as stated: type "manual", dhcp falsy or absent, no `ip` key and a
\* `gateway` or `dns` key present with any value ends in MissingRequiredAddress.
C2_PresentKeyNeedsAddress ==
  (ParsedMapping /\ "type" \in DOMAIN config.d /\ config.d["type"] = Str("manual")
     /\ DhcpOff(config.d) /\ "ip" \notin DOMAIN config.d
     /\ ("gateway" \in DOMAIN config.d \/ "dns" \in DOMAIN config.d))
    => result = Exit("MissingRequiredAddress")

\* C2 amended: type "manual", dhcp falsy or absent, no `ip` key and a `gateway`
\* or `dns` key with a truthy (non-empty) value ends in MissingRequiredAddress.
C2_TruthyKeyNeedsAddress ==
  (ParsedMapping /\ "type" \in DOMAIN config.d /\ config.d["type"] = Str("manual")
     /\ DhcpOff(config.d) /\ "ip" \notin DOMAIN config.d
     /\ \E k \in {"gateway", "dns"} : k \in DOMAIN config.d /\ Truthy(config.d[k]))
    => result = Exit("MissingRequiredAddress")

C2_Witness ==
  /\ ParsedMapping
  /\ "type" \in DOMAIN config.d /\ config.d["type"] = Str("manual")
  /\ "dhcp" \in DOMAIN config.d /\ config.d["dhcp"] = Bool(FALSE)
  /\ "ip" \notin DOMAIN config.d
  /\ "gateway" \in DOMAIN config.d /\ config.d["gateway"] = Str(Gw)
  /\ "dns" \notin DOMAIN config.d
  /\ result = Exit("MissingRequiredAddress")

\* C3: a bare string input returns a record of kind NicType.ISO and nothing else.
C3_BareStringIsIso ==
  (Parsed /\ config.kind = "str") => result = Returned(Bare(ISO))

\* the record is Manual, DHCP off, with the given address
ManualStatic(res, address) ==
  /\ res.out = "record"
  /\ res.rec.type = MANUAL
  /\ res.rec.dhcp = Bool(FALSE)
  /\ res.rec.ip = address

\* C4 as stated: a mapping with an `ip` key and no `type` key, whatever other
\* keys it contains, returns a Manual record with useDhcp false and address
\* equal to the input's `ip`.
C4_IpAloneDecides ==
  (ParsedMapping /\ "ip" \in DOMAIN config.d /\ "type" \notin DOMAIN config.d)
    => ManualStatic(result, config.d["ip"])

\* C4 amended: a mapping with an `ip` key, no `type` key and no truthy
\* `NetworkManager` key returns a Manual record with useDhcp false and address
\* equal to the input's `ip`.
C4_IpDecidesUnlessNetworkManager ==
  (ParsedMapping /\ "ip" \in DOMAIN config.d /\ "type" \notin DOMAIN config.d
     /\ ~("NetworkManager" \in DOMAIN config.d /\ Truthy(config.d["NetworkManager"])))
    => ManualStatic(result, config.d["ip"])

C4_Witness ==
  /\ ParsedMapping
  /\ DOMAIN config.d = {"ip", "nic", "NetworkManager", "dhcp"}
  /\ config.d["ip"] = Str(Addr)
  /\ config.d["NetworkManager"] = Bool(FALSE)
  /\ config.d["dhcp"] = Bool(TRUE)
  /\ ManualStatic(result, Str(Addr))

\* a Manual record with DHCP off and a non-empty address
StaticRecord(r) ==
  r.type = MANUAL /\ r.dhcp = Bool(FALSE) /\ r.ip.t = "str" /\ r.ip.s # ""

\* C8: a Manual record with useDhcp false and a non-empty address, serialised
\* with json() and parsed again, comes back equal in every field.
C8_RoundTrip ==
  (Parsed /\ via = "json" /\ StaticRecord(orig)) => result = Returned(orig)

C8_Witness ==
  /\ Parsed /\ via = "json"
  /\ orig = NetworkConfiguration(MANUAL, Str("eth0"), Str(Addr), Bool(FALSE),
                                 Str(Gw), List(<<"1.1.1.1", "9.9.9.9">>))
  /\ config.d["type"] = MANUAL
  /\ result = Returned(orig)

\* C9: every record parse_arguments returns, through any branch, has a
\* non-empty string address when it is Manual with useDhcp false.
C9_ReturnedRecordHasAddress ==
  (Parsed /\ result.out = "record"
     /\ result.rec.type = MANUAL /\ result.rec.dhcp = Bool(FALSE))
    => (result.rec.ip.t = "str" /\ result.rec.ip.s # "")

\* C10: a record parse_arguments returned, passed back as the input, is
\* returned equal and without an error.
C10_ParseIsIdempotent ==
  (Parsed /\ via = "record") => result = Returned(orig)

(***************************************************************************)
(* Claims about the subvolume collection (checked under SubSpec)           *)
(***************************************************************************)
\* C5: a Delete whose targeted key is not in the collection, or that has no
\* target, raises nothing and leaves the collection unchanged.
C5_DeleteMissingIsNoOp ==
  (action = "Delete" /\ pc \in {"idle", "raised"} /\ sessions > 0
     /\ OrigKey(target) \notin DOMAIN before)
    => (err = "none" /\ pc = "idle" /\ data = before)

Shows(val, field, entered) ==
  /\ val.t = "dict"
  /\ IF Truthy(entered) THEN field \in DOMAIN val.d /\ val.d[field] = entered
     ELSE field \notin DOMAIN val.d

\* C7: an Edit session committed with Save keeps the set of keys; the edited
\* key holds the entered mountpoint and options, every other key its record.
C7_EditSaveKeepsKeys ==
  (pc = "idle" /\ last.how = "saved" /\ action = "Edit")
    => /\ DOMAIN data = DOMAIN before
       /\ last.key \in DOMAIN data
       /\ Shows(data[last.key], "mountpoint", ds.mountpoint)
       /\ Shows(data[last.key], "options", ds.options)
       /\ \A k \in DOMAIN before \ {last.key} : data[k] = before[k]

\* root was added with mountpoint "/" and then edited to "/mnt/root"
C7_Witness ==
  /\ pc = "idle" /\ last.how = "saved" /\ action = "Edit" /\ last.key = "root"
  /\ sessions = 2
  /\ before = Entry("root", Dict(Entry("mountpoint", Str("/"))))
  /\ data = Entry("root", Dict(Entry("mountpoint", Str("/mnt/root"))))

====
